---- MODULE Spec2Model ----
(***************************************************************************)
(* A model of ConfigsubHub: the content normalizer and node extractor of   *)
(* src/parser.py, the channel scraper of src/telegram_handler.py, the      *)
(* output step of src/file_handler.py and the orchestration of main.py.    *)
(*                                                                         *)
(* Texts are TLA+ strings; a character is a string of length one.  The     *)
(* regular expressions of the source are modelled by scanning operators    *)
(* that visit the text position by position, as re.findall/finditer do.    *)
(*                                                                         *)
(* Functions are linked by name: main.py calls scrape_channel(session,     *)
(* channel_id) and awaits it, telegram_handler.py defines the synchronous  *)
(* scrape_channel(channel_id).  The model runs the body of the latter for  *)
(* each call of the former (the session argument is not used by the body). *)
(***************************************************************************)
EXTENDS Integers, Sequences, FiniteSets, TLC

VARIABLES
    \* --- the text functions, run on one input (parser.py, telegram_handler.py)
    tpc,        \* "input" | "decoded" | "parsed" | "reparsed" | "split"
    text,       \* the input text
    decodedContent, \* decode_content(text)
    nodes1,     \* parse_nodes(text)
    nodes2,     \* parse_nodes("\n".join(nodes1))
    split,      \* find_and_split_configs(text)
    \* --- categorize_nodes and _save_categorized_nodes, run on one node list
    cpc,        \* "input" | "categorized" | "saved"
    nodeList,   \* the list handed to categorize_nodes
    categorized,\* the dict categorize_nodes returns (later with "all")
    files,      \* file name -> lines written by _save_categorized_nodes
    \* --- one call of scrape_channel
    spc,        \* "fetching" | "scanning" | "returned" | "raised"
    feed,       \* the fetch outcome and the posts of the page
    postIdx,    \* number of posts the for loop has taken so far
    allConfigs, \* all_configs
    cutoffHit,  \* the loop ended by break
    sResult,    \* the returned pair [nodes, valid]
    \* --- one run of main
    pc,         \* main's position
    links,      \* read_source_links(): the names of the links, in file order
    subResults, \* index -> result of the fetch_sub task, once it has completed
    subIdx,     \* position of the for loop of process_subscription_links
    channelIds, \* read_telegram_channels(): the channel ids
    scrapeRes,  \* index -> result of the scrape task, once it has completed
    chIdx,      \* position of the for loop of process_telegram_channels
    validChannels, \* valid_channels
    allNodesSet,\* all_nodes_set
    sourceFiles,\* <<directory, source name>> -> the files saved for the source
    tracked,    \* the channel ids listed in SOURCE_TELEGRAM_FILE
    rewritten,  \* update_telegram_source_file has rewritten the file
    mixed       \* the files save_mixed_files has written

textVars == <<tpc, text, decodedContent, nodes1, nodes2, split>>
catVars == <<cpc, nodeList, categorized, files>>
scrapeVars == <<spc, feed, postIdx, allConfigs, cutoffHit, sResult>>
mainVars == <<pc, links, subResults, subIdx, channelIds, scrapeRes, chIdx,
              validChannels, allNodesSet, sourceFiles, tracked, rewritten, mixed>>
vars == <<textVars, catVars, scrapeVars, mainVars>>

---------------------------------------------------------------------------
(* Characters and strings                                                  *)

Ch(s, i) == SubSeq(s, i, i)

CharsOf(s) == {Ch(s, i) : i \in 1..Len(s)}

\* The ASCII characters 32 (space) to 95 (underscore) in code point order.
AsciiLow == " !\"#$%&'()*+,-./0123456789:;<=>?@ABCDEFGHIJKLMNOPQRSTUVWXYZ[\\]^_"

\* The ASCII characters 97 (a) to 126 (tilde) in code point order.
AsciiHigh == "abcdefghijklmnopqrstuvwxyz{|}~"

UpperLetters == "ABCDEFGHIJKLMNOPQRSTUVWXYZ"

LowerLetters == "abcdefghijklmnopqrstuvwxyz"

DigitChars == CharsOf("0123456789")

HexChars == CharsOf("0123456789abcdefABCDEF")

\* \w of the re module, on the characters of the model.
WordChars == CharsOf(UpperLetters) \cup CharsOf(LowerLetters) \cup DigitChars \cup {"_"}

\* \s of the re module, on the characters of the model.
SpaceChars == {" ", "\n", "\t", "\r"}

\* ord(c): the code point of a character.
Ord(c) ==
    IF c = "\t" THEN 9
    ELSE IF c = "\n" THEN 10
    ELSE IF c = "\r" THEN 13
    ELSE IF c \in CharsOf(AsciiLow)
    THEN 31 + (CHOOSE i \in 1..Len(AsciiLow) : Ch(AsciiLow, i) = c)
    ELSE 96 + (CHOOSE i \in 1..Len(AsciiHigh) : Ch(AsciiHigh, i) = c)

\* str.lower() on one character.
LowerChar(c) ==
    IF c \in CharsOf(UpperLetters)
    THEN Ch(LowerLetters, CHOOSE i \in 1..26 : Ch(UpperLetters, i) = c)
    ELSE c

\* F(e), with e evaluated once and F applied to its value: a call with its
\* argument passed by value.
Apply(F(_), e) == CHOOSE r \in {F(x) : x \in {e}} : TRUE

\* The least element of a non-empty set of integers.
Min(S) == CHOOSE x \in S : \A y \in S : x <= y

RECURSIVE MapChars(_, _)
\* The string whose characters are those of s, each replaced by F of it
\* (halving s keeps the evaluation shallow).
MapChars(F(_), s) ==
    IF s = "" THEN ""
    ELSE IF Len(s) = 1 THEN F(s)
    ELSE LET h == Len(s) \div 2
         IN MapChars(F, SubSeq(s, 1, h)) \o MapChars(F, SubSeq(s, h + 1, Len(s)))

\* str.lower()
Lower(s) == MapChars(LowerChar, s)

\* The string comparison sorted() uses: the first position where the two
\* differ decides, code point against code point; a proper prefix is less.
StrLess(a, b) ==
    LET n == IF Len(a) < Len(b) THEN Len(a) ELSE Len(b)
        diff == {i \in 1..n : Ch(a, i) # Ch(b, i)}
    IN IF diff = {} THEN Len(a) < Len(b)
       ELSE Ord(Ch(a, Min(diff))) < Ord(Ch(b, Min(diff)))

\* `sub in s` of Python.
Contains(s, sub) ==
    \E k \in 1..(Len(s) - Len(sub) + 1) : SubSeq(s, k, k + Len(sub) - 1) = sub

\* s.startswith(p) at position i (1-based).
StartsAt(s, i, p) == i + Len(p) - 1 <= Len(s) /\ SubSeq(s, i, i + Len(p) - 1) = p

Range(q) == {q[i] : i \in DOMAIN q}

RECURSIVE SortSet(_)
\* sorted(list(S)) for a set of strings.
SortSet(S) ==
    IF S = {} THEN <<>>
    ELSE LET m == CHOOSE x \in S : \A y \in S \ {x} : StrLess(x, y)
         IN <<m>> \o SortSet(S \ {m})

RECURSIVE SortedInsert(_, _)
SortedInsert(q, x) ==
    IF q = <<>> THEN <<x>>
    ELSE IF StrLess(x, Head(q)) THEN <<x>> \o q
    ELSE <<Head(q)>> \o SortedInsert(Tail(q), x)

RECURSIVE SortList(_)
\* sorted(q) for a list of strings, repeated elements kept.
SortList(q) == IF q = <<>> THEN <<>> ELSE SortedInsert(SortList(Tail(q)), Head(q))

RECURSIVE Join(_, _)
\* sep.join(q) (halving q keeps the evaluation shallow)
Join(q, sep) ==
    IF q = <<>> THEN ""
    ELSE IF Len(q) = 1 THEN q[1]
    ELSE LET h == Len(q) \div 2
         IN Join(SubSeq(q, 1, h), sep) \o sep \o Join(SubSeq(q, h + 1, Len(q)), sep)

---------------------------------------------------------------------------
(* parser.py: parse_nodes                                                  *)

\* protocols (parser.py), the schemes of protocol_pattern.
Protocols ==
    {"vless", "vmess", "trojan", "ss", "ssr", "tuic", "hy2", "hysteria2",
     "hysteria", "snell", "anytls", "mieru", "juicity", "ssh", "wireguard",
     "warp", "socks4", "socks5", "mtproto", "http", "https"}

\* Only the white space excluded from the run after scheme://.
ExcludedSpaceOnly == SpaceChars

\* The characters [^\s<>"'\\] of protocol_pattern excludes.
ExcludedChars == SpaceChars \cup {"<", ">", "\"", "'", "\\"}

\* A non-word character before position i: no match at the start of the
\* text.
WordStartAfterNonWord(t, i) == i > 1 /\ Ch(t, i - 1) \notin WordChars

\* \b before position i, where text[i] is a word character: the start of the
\* text, or a non-word character before it.
WordStart(t, i) == i = 1 \/ Ch(t, i - 1) \notin WordChars

\* \b after position i, where text[i] is a word character.
WordEnd(t, i) == i = Len(t) \/ Ch(t, i + 1) \notin WordChars

\* The last position of the longest run of characters outside `stop` that
\* starts at position i (i - 1 when there is none): a greedy [^...]*.
RunEnd(t, i, stop) ==
    LET ends == {j \in i..Len(t) : Ch(t, j) \in stop}
    IN IF ends = {} THEN (IF i > Len(t) THEN i - 1 ELSE Len(t)) ELSE Min(ends) - 1

\* The last position of the run of digits that starts at position i: \d*.
DigitsEnd(t, i) ==
    LET ends == {j \in i..Len(t) : Ch(t, j) \notin DigitChars}
    IN IF ends = {} THEN (IF i > Len(t) THEN i - 1 ELSE Len(t)) ELSE Min(ends) - 1

\* The schemes p for which p:// matches at position i, under (?i) when
\* ignoreCase: the place of the :// is looked for first.
SchemesAt(t, i, schemes, ignoreCase) ==
    {p \in schemes :
        /\ StartsAt(t, i + Len(p), "://")
        /\ LET got == SubSeq(t, i, i + Len(p) - 1)
           IN (IF ignoreCase THEN Lower(got) ELSE got) = p}

\* The lengths of the schemes of protocol_pattern.
SchemeLens == {Len(p) : p \in Protocols}

\* Whether some scheme:// can start at position i: a letter or digit there,
\* and a :// at the distance of a scheme.
SchemeCanStart(t, i) ==
    /\ i <= Len(t) /\ Ch(t, i) \in WordChars
    /\ \E n \in SchemeLens : StartsAt(t, i + n, "://")

\* protocol_pattern at position i: the last position of the match, 0 when
\* the pattern does not match there.  At most one scheme is followed by ://
\* at a position, so the order of the alternatives plays no part.
ProtocolMatchEnd(t, i) ==
    IF ~SchemeCanStart(t, i) \/ ~WordStart(t, i) THEN 0
    ELSE LET ps == SchemesAt(t, i, Protocols, TRUE)
         IN IF ps = {} THEN 0
            ELSE LET p == CHOOSE q \in ps : TRUE
                     from == i + Len(p) + 3
                     e == RunEnd(t, from, ExcludedChars)
                 IN IF e < from THEN 0 ELSE e

\* ip_port_pattern at position i: the last position of the match, or 0.
\* Every \d{1,n} is followed by a character that is no digit (., : or \b),
\* so each group is a whole run of digits.
IpPortMatchEnd(t, i) ==
    IF i > Len(t) \/ Ch(t, i) \notin DigitChars \/ ~WordStart(t, i) THEN 0
    ELSE LET e1 == DigitsEnd(t, i)
             e2 == DigitsEnd(t, e1 + 2)
             e3 == DigitsEnd(t, e2 + 2)
             e4 == DigitsEnd(t, e3 + 2)
             e5 == DigitsEnd(t, e4 + 2)
             Group(from, to, max) == to >= from /\ to - from + 1 <= max
         IN IF /\ Group(i, e1, 3) /\ StartsAt(t, e1 + 1, ".")
               /\ Group(e1 + 2, e2, 3) /\ StartsAt(t, e2 + 1, ".")
               /\ Group(e2 + 2, e3, 3) /\ StartsAt(t, e3 + 1, ".")
               /\ Group(e3 + 2, e4, 3) /\ StartsAt(t, e4 + 1, ":")
               /\ Group(e4 + 2, e5, 5) /\ WordEnd(t, e5)
            THEN e5 ELSE 0

RECURSIVE FindSpans(_, _, _)
\* re.finditer: the spans <<first, last>> of the matches from left to right,
\* none overlapping another: the search goes on after the end of a match.
\* MatchEnd(t, i) is the pattern at position i.
FindSpans(MatchEnd(_, _), t, i) ==
    LET starts == {j \in i..Len(t) : MatchEnd(t, j) > 0}
    IN IF starts = {} THEN <<>>
       ELSE LET j == Min(starts)
                e == MatchEnd(t, j)
            IN <<(<<j, e>>)>> \o FindSpans(MatchEnd, t, e + 1)

\* re.findall with one group around the whole pattern: the matched texts.
FindAll(MatchEnd(_, _), t) ==
    LET spans == FindSpans(MatchEnd, t, 1)
    IN [k \in DOMAIN spans |-> SubSeq(t, spans[k][1], spans[k][2])]

RECURSIVE AddProxies(_, _)
\* The loop over potential_proxies: found_nodes grows as it goes.
AddProxies(found, proxies) ==
    IF proxies = <<>> THEN found
    ELSE LET proxy == Head(proxies)
         IN AddProxies(IF \E node \in found : Contains(node, proxy)
                       THEN found
                       ELSE found \cup {"http://" \o proxy},
                       Tail(proxies))

\* parse_nodes(decoded_content)
parse_nodes(t) ==
    LET found_nodes == Range(FindAll(ProtocolMatchEnd, t))
        potential_proxies == FindAll(IpPortMatchEnd, t)
    IN SortSet(AddProxies(found_nodes, potential_proxies))

---------------------------------------------------------------------------
(* telegram_handler.py: convert_telegram_proxy_to_mtproto and              *)
(* find_and_split_configs                                                  *)

\* The position of the first occurrence of character c at or after i, or 0.
IndexOf(t, c, i) ==
    LET at == {j \in i..Len(t) : Ch(t, j) = c}
    IN IF at = {} THEN 0 ELSE Min(at)

RECURSIVE SplitOn(_, _)
\* t.split(c)
SplitOn(t, c) ==
    LET k == IndexOf(t, c, 1)
    IN IF k = 0 THEN <<t>>
       ELSE <<SubSeq(t, 1, k - 1)>> \o SplitOn(SubSeq(t, k + 1, Len(t)), c)

\* The value of a hexadecimal digit.
HexVal(c) ==
    IF c \in DigitChars THEN Ord(c) - 48
    ELSE IF c \in CharsOf("abcdef") THEN Ord(c) - 87
    ELSE Ord(c) - 55

\* chr(n) for the printable ASCII characters.
Chr(n) ==
    IF n \in 32..95 THEN Ch(AsciiLow, n - 31)
    ELSE IF n \in 97..126 THEN Ch(AsciiHigh, n - 96)
    ELSE "?"

PlusToSpace(c) == IF c = "+" THEN " " ELSE c

RECURSIVE UnquoteParts(_)
\* The pieces that followed a '%': two hexadecimal digits become the
\* character of that code, anything else keeps its '%'.
UnquoteParts(parts) ==
    IF parts = <<>> THEN ""
    ELSE LET x == Head(parts)
         IN (IF Len(x) >= 2 /\ Ch(x, 1) \in HexChars /\ Ch(x, 2) \in HexChars
             THEN Chr(16 * HexVal(Ch(x, 1)) + HexVal(Ch(x, 2))) \o SubSeq(x, 3, Len(x))
             ELSE "%" \o x) \o UnquoteParts(Tail(parts))

\* unquote(value.replace('+', ' ')), as parse_qsl decodes names and values.
Unquote(t) ==
    LET parts == SplitOn(MapChars(PlusToSpace, t), "%")
    IN Head(parts) \o UnquoteParts(Tail(parts))

\* urlparse(url).query: what follows the first '?', up to a '#'.
UrlQuery(url) ==
    LET h == IndexOf(url, "#", 1)
        u == IF h = 0 THEN url ELSE SubSeq(url, 1, h - 1)
        q == IndexOf(u, "?", 1)
    IN IF q = 0 THEN "" ELSE SubSeq(u, q + 1, Len(u))

RECURSIVE QueryValues(_, _)
\* parse_qs(query).get(key): the values of `key`, in order, from the
\* name=value pairs (a pair with no '=' or with an empty value is dropped).
QueryValues(pairs, key) ==
    IF pairs = <<>> THEN <<>>
    ELSE LET pair == Head(pairs)
             eq == IndexOf(pair, "=", 1)
             name == Unquote(SubSeq(pair, 1, eq - 1))
             value == Unquote(SubSeq(pair, eq + 1, Len(pair)))
         IN (IF eq > 0 /\ value # "" /\ name = key THEN <<value>> ELSE <<>>)
                \o QueryValues(Tail(pairs), key)

\* params.get(key, [None])[0]; "" stands for None (no value is empty).
QueryParam(url, key) ==
    LET vs == QueryValues(SplitOn(UrlQuery(url), "&"), key)
    IN IF vs = <<>> THEN "" ELSE vs[1]

\* convert_telegram_proxy_to_mtproto(proxy_url); "" stands for None.
convert_telegram_proxy_to_mtproto(proxy_url) ==
    LET server == QueryParam(proxy_url, "server")
        port == QueryParam(proxy_url, "port")
        secret == QueryParam(proxy_url, "secret")
    IN IF server # "" /\ port # "" /\ secret # ""
       THEN LET s2 == IF Len(secret) = 32 /\ CharsOf(secret) \subseteq HexChars
                      THEN "dd" \o secret ELSE secret
            IN "mtproto://" \o s2 \o "@" \o server \o ":" \o port
       ELSE ""

\* The schemes of standard_pattern (telegram_handler.py): no mtproto.
StandardSchemes == Protocols \ {"mtproto"}

TgProxyPrefix == "https://t.me/proxy?"

\* tg_proxy_pattern at position i: the last position of the match, or 0.
TgProxyMatchEnd(t, i) ==
    IF ~StartsAt(t, i, TgProxyPrefix) THEN 0
    ELSE LET from == i + Len(TgProxyPrefix)
             e == RunEnd(t, from, SpaceChars)
         IN IF e < from THEN 0 ELSE e

\* standard_pattern at position i: it matches scheme:// alone, with no \b
\* and no (?i).
StandardMatchEnd(t, i) ==
    IF ~SchemeCanStart(t, i) THEN 0
    ELSE LET ps == SchemesAt(t, i, StandardSchemes, FALSE)
         IN IF ps = {} THEN 0 ELSE i + Len(CHOOSE q \in ps : TRUE) + 2

\* str.strip()
Strip(t) ==
    LET keep == {i \in 1..Len(t) : Ch(t, i) \notin SpaceChars}
    IN IF keep = {} THEN ""
       ELSE SubSeq(t, Min(keep), CHOOSE i \in keep : \A j \in keep : j <= i)

\* mtproto_configs: the converted t.me/proxy links, those that convert.
MtprotoConfigs(t) ==
    LET urls == FindAll(TgProxyMatchEnd, t)
    IN SelectSeq([k \in DOMAIN urls |-> convert_telegram_proxy_to_mtproto(urls[k])],
                 LAMBDA m : m # "")

\* standard_configs: the text cut at every start of a scheme token.
StandardConfigs(t) ==
    LET spans == FindSpans(StandardMatchEnd, t, 1)
    IN [k \in DOMAIN spans |->
          Strip(SubSeq(t, spans[k][1],
                       IF k < Len(spans) THEN spans[k + 1][1] - 1 ELSE Len(t)))]

\* find_and_split_configs(text)
find_and_split_configs(t) ==
    Apply(parse_nodes, Join(MtprotoConfigs(t) \o StandardConfigs(t), "\n"))

---------------------------------------------------------------------------
(* parser.py: is_base64 and decode_content                                 *)

\* The base64 alphabet, in the order of the values 0..63.
B64Alphabet == "ABCDEFGHIJKLMNOPQRSTUVWXYZabcdefghijklmnopqrstuvwxyz0123456789+/"

B64Val(c) == (CHOOSE i \in 1..64 : Ch(B64Alphabet, i) = c) - 1

B64Char(v) == Ch(B64Alphabet, v + 1)

\* The regular expression ^[A-Za-z0-9+/]*={0,2}$ of is_base64.
B64Shape(s) ==
    LET body == RunEnd(s, 1, {"="})
    IN /\ CharsOf(SubSeq(s, 1, body)) \subseteq CharsOf(B64Alphabet)
       /\ Len(s) - body <= 2
       /\ \A i \in (body + 1)..Len(s) : Ch(s, i) = "="

\* The bytes of one group of four characters (it may end in = or ==).
B64DecodeGroup(g) ==
    LET v(i) == IF Ch(g, i) = "=" THEN 0 ELSE B64Val(Ch(g, i))
        n == ((v(1) * 64 + v(2)) * 64 + v(3)) * 64 + v(4)
        bytes == <<n \div 65536, (n \div 256) % 256, n % 256>>
        keep == IF Ch(g, 3) = "=" THEN 1 ELSE IF Ch(g, 4) = "=" THEN 2 ELSE 3
    IN SubSeq(bytes, 1, keep)

RECURSIVE B64DecodeGroups(_)
\* The bytes of the groups of four characters of s, group after group
\* (halving s keeps the evaluation shallow).
B64DecodeGroups(s) ==
    IF s = "" THEN <<>>
    ELSE IF Len(s) = 4 THEN B64DecodeGroup(s)
    ELSE LET h == 4 * ((Len(s) \div 4) \div 2)
         IN B64DecodeGroups(SubSeq(s, 1, h)) \o B64DecodeGroups(SubSeq(s, h + 1, Len(s)))

\* base64.b64decode(s) for s of the shape above: <<ok, bytes>>.  It raises
\* (ok is FALSE) when the padding is incorrect: the length is no multiple of
\* four.
B64Decode(s) ==
    IF Len(s) % 4 # 0 THEN <<FALSE, <<>>>> ELSE <<TRUE, B64DecodeGroups(s)>>

\* The four characters of a group of one to three bytes.
B64EncodeGroup(b) ==
    LET k == Len(b)
        b2 == IF k >= 2 THEN b[2] ELSE 0
        b3 == IF k >= 3 THEN b[3] ELSE 0
        n == (b[1] * 256 + b2) * 256 + b3
    IN B64Char(n \div 262144) \o B64Char((n \div 4096) % 64)
         \o (IF k >= 2 THEN B64Char((n \div 64) % 64) ELSE "=")
         \o (IF k >= 3 THEN B64Char(n % 64) ELSE "=")

RECURSIVE B64Encode(_)
\* base64.b64encode(bytes).decode('ascii')
B64Encode(b) ==
    IF b = <<>> THEN ""
    ELSE IF Len(b) <= 3 THEN B64EncodeGroup(b)
    ELSE LET h == 3 * (((Len(b) + 2) \div 3) \div 2)
         IN B64Encode(SubSeq(b, 1, h)) \o B64Encode(SubSeq(b, h + 1, Len(b)))

\* is_base64(s)
is_base64(s) ==
    /\ Strip(s) # ""
    /\ B64Shape(s)
    /\ LET d == B64Decode(s) IN d[1] /\ B64Encode(d[2]) = s

\* The character of a code point below 128 (a control character other than
\* tab, line feed and carriage return is shown as '?').
AsciiChr(n) ==
    IF n = 9 THEN "\t" ELSE IF n = 10 THEN "\n" ELSE IF n = 13 THEN "\r" ELSE Chr(n)

IsCont(b, i, lo, hi) == i <= Len(b) /\ b[i] >= lo /\ b[i] <= hi

\* The length of the UTF-8 sequence that starts at byte i, 0 when the bytes
\* there are no valid sequence.
Utf8SeqLen(b, i) ==
    LET x == b[i]
    IN IF x < 128 THEN 1
       ELSE IF x >= 194 /\ x <= 223 THEN (IF IsCont(b, i + 1, 128, 191) THEN 2 ELSE 0)
       ELSE IF x >= 224 /\ x <= 239
            THEN (IF /\ IsCont(b, i + 1, IF x = 224 THEN 160 ELSE 128,
                                         IF x = 237 THEN 159 ELSE 191)
                     /\ IsCont(b, i + 2, 128, 191) THEN 3 ELSE 0)
       ELSE IF x >= 240 /\ x <= 244
            THEN (IF /\ IsCont(b, i + 1, IF x = 240 THEN 144 ELSE 128,
                                         IF x = 244 THEN 143 ELSE 191)
                     /\ IsCont(b, i + 2, 128, 191)
                     /\ IsCont(b, i + 3, 128, 191) THEN 4 ELSE 0)
       ELSE 0

\* A continuation byte of UTF-8.
IsContByte(x) == x >= 128 /\ x <= 191

RECURSIVE Utf8Text(_, _, _)
\* The characters of bytes lo..hi of a valid sequence: one for each byte that
\* starts a sequence.  A character beyond ASCII is shown as '?'.
Utf8Text(b, lo, hi) ==
    IF lo > hi THEN ""
    ELSE IF lo = hi
         THEN (IF IsContByte(b[lo]) THEN ""
               ELSE IF b[lo] < 128 THEN AsciiChr(b[lo]) ELSE "?")
    ELSE LET mid == (lo + hi) \div 2
         IN Utf8Text(b, lo, mid) \o Utf8Text(b, mid + 1, hi)

\* bytes.decode('utf-8'): <<ok, text>>; ok is FALSE when it raises
\* UnicodeDecodeError: a byte that starts no valid sequence, or a
\* continuation byte that belongs to none.
Utf8Decode(b) ==
    LET leads == {i \in DOMAIN b : ~IsContByte(b[i])}
        ok == /\ \A i \in leads : Utf8SeqLen(b, i) > 0
              /\ \A j \in DOMAIN b \ leads :
                    \E i \in leads : i < j /\ j < i + Utf8SeqLen(b, i)
    IN IF ok THEN <<TRUE, Utf8Text(b, 1, Len(b))>> ELSE <<FALSE, "">>

RECURSIVE SplitLines(_)
\* str.splitlines(): lines end at \n, \r or \r\n; no empty last line.
SplitLines(t) ==
    IF t = "" THEN <<>>
    ELSE LET e == RunEnd(t, 1, {"\n", "\r"})
             skip == IF StartsAt(t, e + 1, "\r\n") THEN 2 ELSE 1
         IN <<SubSeq(t, 1, e)>>
              \o (IF e + skip >= Len(t) THEN <<>>
                  ELSE SplitLines(SubSeq(t, e + skip + 1, Len(t))))

\* lines: the stripped lines of content that are not blank.
CleanLines(content) ==
    LET ls == SplitLines(content)
    IN SelectSeq([k \in DOMAIN ls |-> Strip(ls[k])], LAMBDA l : l # "")

\* decode_content(content)
decode_content(content) ==
    LET lines == CleanLines(content)
        blob == Join(lines, "")
    IN IF lines # <<>> /\ (\A k \in DOMAIN lines : ~Contains(lines[k], " "))
          /\ is_base64(blob)
       THEN LET decoded == Utf8Decode(B64Decode(blob)[2])
            IN IF decoded[1] THEN decoded[2] ELSE content
       ELSE Join(lines, "\n")

---------------------------------------------------------------------------
(* parser.py: categorize_nodes; file_handler.py: _save_categorized_nodes   *)

\* A dict is a function from its keys; the empty dict is the empty function.
EmptyDict == <<>>

\* protocol_aliases.get(protocol, protocol)
CanonicalProtocol(protocol) ==
    IF protocol = "hysteria2" THEN "hy2"
    ELSE IF protocol = "https" THEN "http"
    ELSE protocol

\* The position of the first occurrence of sub in t, or 0.
Find(t, sub) ==
    LET at == {k \in 1..(Len(t) - Len(sub) + 1) : SubSeq(t, k, k + Len(sub) - 1) = sub}
    IN IF at = {} THEN 0 ELSE Min(at)

\* node.split('://', 1)[0].lower(): the whole node when it holds no '://'
\* (split then returns the one-element list, and [0] raises no IndexError).
ProtocolOf(node) ==
    LET k == Find(node, "://")
    IN Lower(IF k = 0 THEN node ELSE SubSeq(node, 1, k - 1))

RECURSIVE CategorizeFrom(_, _)
\* The for loop of categorize_nodes over the rest of the nodes.
CategorizeFrom(cat, nodes) ==
    IF nodes = <<>> THEN cat
    ELSE LET node == Head(nodes)
             tag == CanonicalProtocol(ProtocolOf(node))
             old == IF tag \in DOMAIN cat THEN cat[tag] ELSE <<>>
         IN CategorizeFrom([k \in DOMAIN cat \cup {tag} |->
                               IF k = tag THEN Append(old, node) ELSE cat[k]],
                           Tail(nodes))

\* categorize_nodes(nodes)
categorize_nodes(nodes) == CategorizeFrom(EmptyDict, nodes)

\* The keys of PROTOCOL_TO_FILENAME (file_handler.py): the tags that have an
\* output file.  A file is named here by its tag.
ProtocolsWithFile ==
    {"all", "anytls", "http", "hysteria", "hy2", "juicity", "mieru", "mtproto",
     "snell", "socks4", "socks5", "ss", "ssr", "ssh", "trojan", "tuic",
     "vless", "vmess", "warp", "wireguard"}

RECURSIVE Flatten(_)
Flatten(qs) == IF qs = <<>> THEN <<>> ELSE Head(qs) \o Flatten(Tail(qs))

\* all_nodes: the values of the dict, one after another.  The order of the
\* keys plays no part: the list is only sorted.
AllNodesOf(cat) ==
    LET keys == SortSet(DOMAIN cat)
    IN Flatten([k \in DOMAIN keys |-> cat[keys[k]]])

\* categorized_nodes["all"] = sorted(all_nodes), when there are nodes.
WithAll(cat) ==
    LET all_nodes == AllNodesOf(cat)
    IN IF all_nodes = <<>> THEN cat
       ELSE [k \in DOMAIN cat \cup {"all"} |->
                IF k = "all" THEN SortList(all_nodes) ELSE cat[k]]

\* The files _save_categorized_nodes writes for a dict that holds "all":
\* tag -> content, for the tags that have a file name and nodes.
FilesOf(cat) ==
    [k \in {t \in DOMAIN cat : t \in ProtocolsWithFile /\ cat[t] # <<>>} |->
        Join(cat[k], "\n")]

---------------------------------------------------------------------------
(* telegram_handler.py: extract_potential_configs_from_message and         *)
(* scrape_channel                                                          *)

\* TELEGRAM_POST_MAX_AGE_DAYS of config: the age, in days, up to which a
\* post is scanned.
TELEGRAM_POST_MAX_AGE_DAYS == 3

\* The status raise_for_status() reports as "not found".
NOT_FOUND == 404

\* A post is a div of class tgme_widget_message_text:
\*   parent: it lies in a div of class tgme_widget_message;
\*   time:   the time tag of that div: [kind, age] with kind "none" (no tag,
\*           or no datetime attribute), "bad" (fromisoformat raises
\*           ValueError), "naive" (a datetime with no UTC offset) or "aware"
\*           (age: whole days before now);
\*   segs:   its content in document order, each piece [kind, text, href]
\*           with kind "text", "br", "a", "code" or "pre".
Seg(kind, t, href) == [kind |-> kind, text |-> t, href |-> href]

Post(parent, timeKind, age, segs) ==
    [parent |-> parent, time |-> [kind |-> timeKind, age |-> age], segs |-> segs]

\* message_div.get_text() after every <br> is replaced by a line feed.
GetText(segs) ==
    Join([k \in DOMAIN segs |-> IF segs[k].kind = "br" THEN "\n" ELSE segs[k].text], "")

\* extract_potential_configs_from_message(message_div)
extract_potential_configs_from_message(segs) ==
    LET anchors == SelectSeq(segs, LAMBDA g : g.kind = "a" /\ Contains(g.href, "t.me/proxy?"))
        blocks == SelectSeq(segs, LAMBDA g : g.kind \in {"code", "pre"})
        potential_texts ==
            [k \in DOMAIN anchors |-> anchors[k].href]
                \o [k \in DOMAIN blocks |-> blocks[k].text]
                \o <<GetText(segs)>>
    IN Join(potential_texts, "\n")

\* The state of the for loop of scrape_channel: all_configs, whether the
\* loop has ended by break, whether an exception has left the function.
ScanStart == [configs |-> {}, cut |-> FALSE, raised |-> FALSE]

\* One pass of the for loop with an old post skipped, not ending the loop.
ScanStepNoBreak(st, post) ==
    IF ~post.parent THEN [st EXCEPT !.raised = TRUE]
    ELSE IF post.time.kind \in {"none", "bad"} THEN st
    ELSE IF post.time.kind = "naive" THEN [st EXCEPT !.raised = TRUE]
    ELSE IF post.time.age > TELEGRAM_POST_MAX_AGE_DAYS THEN st
    ELSE Apply(LAMBDA post_text :
                   IF Strip(post_text) = "" THEN st
                   ELSE [st EXCEPT !.configs =
                            @ \cup Range(find_and_split_configs(post_text))],
               extract_potential_configs_from_message(post.segs))

\* One pass of the for loop of scrape_channel, on one post:
\*   no parent div: find_parent() is None and .find raises AttributeError;
\*   no time tag, or an unparseable one: continue;
\*   a naive datetime: post_date < cutoff_date raises TypeError;
\*   post_date < cutoff_date: break;
\*   otherwise the configs of the post are added to all_configs.
ScanStep(st, post) ==
    IF ~post.parent THEN [st EXCEPT !.raised = TRUE]
    ELSE IF post.time.kind \in {"none", "bad"} THEN st
    ELSE IF post.time.kind = "naive" THEN [st EXCEPT !.raised = TRUE]
    ELSE IF post.time.age > TELEGRAM_POST_MAX_AGE_DAYS THEN [st EXCEPT !.cut = TRUE]
    ELSE Apply(LAMBDA post_text :
                   IF Strip(post_text) = "" THEN st
                   ELSE [st EXCEPT !.configs =
                            @ \cup Range(find_and_split_configs(post_text))],
               extract_potential_configs_from_message(post.segs))

RECURSIVE ScanFrom(_, _)
\* The for loop of scrape_channel over the rest of the posts.
ScanFrom(st, posts) ==
    IF posts = <<>> \/ st.cut \/ st.raised THEN st
    ELSE Apply(LAMBDA next : ScanFrom(next, Tail(posts)), ScanStep(st, Head(posts)))

\* A feed is what requests.get and raise_for_status give for a channel:
\*   fetch: "ok", "http_error" (with its status), "timeout" or
\*          "connection_error";
\*   posts: the posts of the page, in document order.
Feed(fetch, status, posts) == [fetch |-> fetch, status |-> status, posts |-> posts]

\* The result of the except clauses of scrape_channel with every HTTP error
\* taken as "not found".
FetchFailureAllInvalid(f) ==
    IF f.fetch = "http_error"
    THEN [nodes |-> {}, valid |-> FALSE]
    ELSE [nodes |-> {}, valid |-> TRUE]

\* The result of the except clauses of scrape_channel, for a failed fetch.
FetchFailure(f) ==
    IF f.fetch = "http_error" /\ f.status = NOT_FOUND
    THEN [nodes |-> {}, valid |-> FALSE]
    ELSE [nodes |-> {}, valid |-> TRUE]

\* scrape_channel(channel_id) as one step: [raised, nodes, valid], where
\* nodes is the set the returned list holds (list(all_configs) gives them in
\* no particular order).
scrape_channel(f) ==
    IF f.fetch # "ok"
    THEN [raised |-> FALSE] @@ FetchFailure(f)
    ELSE IF f.posts = <<>>
    THEN [raised |-> FALSE, nodes |-> {}, valid |-> TRUE]
    ELSE Apply(LAMBDA st : [raised |-> st.raised,
                            nodes |-> IF st.raised THEN {} ELSE st.configs,
                            valid |-> TRUE],
               ScanFrom(ScanStart, f.posts))

\* The permutations of a finite set, as sequences: the orders list(S) can
\* give.
ListsOf(S) ==
    {q \in [1..Cardinality(S) -> S] : \A i, j \in DOMAIN q : i # j => q[i] # q[j]}

---------------------------------------------------------------------------
(* Inputs                                                                  *)

\* The sequences over S of length at most n.
SeqsUpTo(S, n) == UNION {[1..k -> S] : k \in 0..n}

\* The longest text is made of MaxFrags fragments.
MaxFrags == 2

\* The longest list handed to categorize_nodes.
MaxNodes == 3

\* The longest page of posts.
MaxPosts == 3

Hex32 == "0123456789abcdef0123456789ABCDEF"

\* The pieces the input texts are made of: URIs of several schemes, one with
\* an upper-case scheme, one inside a longer word, one that holds another
\* scheme in its query, a bare ip:port, separators, and t.me/proxy links
\* with and without their three parameters.
Fragments ==
    {"vless://aaa", "vmess://bbb", " ", "\n", " 1.2.3.4:80", "VLESS://Ab",
     "wss://x", "ss://k@1.2.3.4:8080", "vless://u@h?sni=http://c",
     "https://t.me/proxy?server=1.2.3.4&port=443&secret=" \o Hex32,
     "https://t.me/proxy?server=h.io&port=8&secret=ee12",
     "https://t.me/proxy?server=1.2.3.4&port=443", "'>"}

TextInputs == {Join(q, "") : q \in SeqsUpTo(Fragments, MaxFrags)}

\* The strings handed to categorize_nodes: nodes of several schemes, and one
\* string that holds no '://'.
NodePool ==
    {"vless://a", "http://a", "https://b", "hysteria2://x", "VMESS://c", "garbage"}

NodeLists == SeqsUpTo(NodePool, MaxNodes)

\* The posts the pages are made of; the text of one is the base64 of
\* "trojan://p@h.io:443".
PostPool ==
    {Post(TRUE, "aware", 1, <<Seg("text", "vless://aaa", "")>>),
     Post(TRUE, "aware", 0,
          <<Seg("a", "proxy", "https://t.me/proxy?server=h.io&port=8&secret=ee12"),
            Seg("br", "", ""), Seg("code", "ss://k@1.2.3.4:8080", "")>>),
     Post(TRUE, "aware", 9, <<Seg("text", "vmess://old", "")>>),
     Post(TRUE, "aware", 2, <<>>),
     Post(TRUE, "aware", 1, <<Seg("text", "dHJvamFuOi8vcEBoLmlvOjQ0Mw==", "")>>),
     Post(TRUE, "none", 0, <<Seg("text", "trojan://n", "")>>),
     Post(TRUE, "bad", 0, <<Seg("text", "trojan://b", "")>>),
     Post(TRUE, "naive", 0, <<Seg("text", "tuic://t", "")>>),
     Post(FALSE, "aware", 0, <<Seg("text", "snell://s", "")>>)}

\* The HTTP statuses raise_for_status() raises HTTPError for, in the model.
ErrorStatuses == {403, NOT_FOUND, 500}

Feeds ==
    {Feed("ok", 200, posts) : posts \in SeqsUpTo(PostPool, MaxPosts)}
        \cup {Feed("http_error", st, <<>>) : st \in ErrorStatuses}
        \cup {Feed(k, 0, <<>>) : k \in {"timeout", "connection_error"}}

---------------------------------------------------------------------------
(* The variables a specification leaves alone                              *)

TextIdle ==
    /\ tpc = "idle" /\ text = "" /\ decodedContent = ""
    /\ nodes1 = <<>> /\ nodes2 = <<>> /\ split = <<>>

CatIdle == cpc = "idle" /\ nodeList = <<>> /\ categorized = EmptyDict /\ files = EmptyDict

ScrapeIdle ==
    /\ spc = "idle" /\ feed = Feed("timeout", 0, <<>>) /\ postIdx = 0
    /\ allConfigs = {} /\ cutoffHit = FALSE
    /\ sResult = [nodes |-> <<>>, valid |-> TRUE]

MainIdle ==
    /\ pc = "idle" /\ links = <<>> /\ subResults = EmptyDict /\ subIdx = 0
    /\ channelIds = <<>> /\ scrapeRes = EmptyDict /\ chIdx = 0
    /\ validChannels = <<>> /\ allNodesSet = {} /\ sourceFiles = EmptyDict
    /\ tracked = {} /\ rewritten = FALSE /\ mixed = EmptyDict

---------------------------------------------------------------------------
(* The text functions on one input                                         *)

InitText ==
    /\ tpc = "input" /\ text \in TextInputs /\ decodedContent = ""
    /\ nodes1 = <<>> /\ nodes2 = <<>> /\ split = <<>>
    /\ CatIdle /\ ScrapeIdle /\ MainIdle

\* source_nodes = parse_nodes(decoded_content)
ParseNodes ==
    /\ tpc = "input"
    /\ nodes1' = parse_nodes(text)
    /\ tpc' = "parsed"
    /\ UNCHANGED <<text, decodedContent, nodes2, split, catVars, scrapeVars, mainVars>>

\* parse_nodes run again, on its own output joined by line feeds
ReParse ==
    /\ tpc = "parsed"
    /\ nodes2' = Apply(parse_nodes, Join(nodes1, "\n"))
    /\ tpc' = "reparsed"
    /\ UNCHANGED <<text, decodedContent, nodes1, split, catVars, scrapeVars, mainVars>>

\* configs_in_post = find_and_split_configs(post_text)
FindAndSplit ==
    /\ tpc = "input"
    /\ split' = find_and_split_configs(text)
    /\ tpc' = "split"
    /\ UNCHANGED <<text, decodedContent, nodes1, nodes2, catVars, scrapeVars, mainVars>>

NextText == ParseNodes \/ ReParse \/ FindAndSplit

SpecText == InitText /\ [][NextText]_vars

---------------------------------------------------------------------------
(* decode_content and parse_nodes on the content of one subscription      *)

\* The most lines in the content of a subscription.
MaxLines == 2

\* Lines of a content: the base64 of "vless://a" whole, padded with blanks
\* and in two halves, the base64 of the byte 0xFF (no UTF-8 text), a string
\* that is no round-trip base64, a node, a line with a blank inside, and an
\* empty line.
LinePool ==
    {"dmxlc3M6Ly9h", "  dmxlc3M6Ly9h ", "dmxlc3M6", "Ly9h", "/w==", "abc",
     "vmess://b", "ss://c d", ""}

\* The contents fetch_sub may return: lines joined by line feeds.
ContentInputs == {Join(q, "\n") : q \in SeqsUpTo(LinePool, MaxLines)}

InitDecode ==
    /\ tpc = "input" /\ text \in ContentInputs /\ decodedContent = ""
    /\ nodes1 = <<>> /\ nodes2 = <<>> /\ split = <<>>
    /\ CatIdle /\ ScrapeIdle /\ MainIdle

\* decoded_content = decode_content(content)
DecodeContent ==
    /\ tpc = "input"
    /\ decodedContent' = decode_content(text)
    /\ tpc' = "decoded"
    /\ UNCHANGED <<text, nodes1, nodes2, split, catVars, scrapeVars, mainVars>>

\* source_nodes = parse_nodes(decoded_content)
ParseDecoded ==
    /\ tpc = "decoded"
    /\ nodes1' = parse_nodes(decodedContent)
    /\ tpc' = "parsed"
    /\ UNCHANGED <<text, decodedContent, nodes2, split, catVars, scrapeVars, mainVars>>

NextDecode == DecodeContent \/ ParseDecoded

SpecDecode == InitDecode /\ [][NextDecode]_vars

---------------------------------------------------------------------------
(* categorize_nodes and _save_categorized_nodes on one list                *)

InitCat ==
    /\ cpc = "input" /\ nodeList \in NodeLists
    /\ categorized = EmptyDict /\ files = EmptyDict
    /\ TextIdle /\ ScrapeIdle /\ MainIdle

\* categorized = categorize_nodes(nodes)
Categorize ==
    /\ cpc = "input"
    /\ categorized' = categorize_nodes(nodeList)
    /\ cpc' = "categorized"
    /\ UNCHANGED <<nodeList, files, textVars, scrapeVars, mainVars>>

\* _save_categorized_nodes(base_dir, categorized, save_base64): the entry
\* "all" is added to the dict, and the files are written.
SaveCategorized ==
    /\ cpc = "categorized"
    /\ categorized' = WithAll(categorized)
    /\ files' = FilesOf(WithAll(categorized))
    /\ cpc' = "saved"
    /\ UNCHANGED <<nodeList, textVars, scrapeVars, mainVars>>

NextCat == Categorize \/ SaveCategorized

SpecCat == InitCat /\ [][NextCat]_vars

---------------------------------------------------------------------------
(* One call of scrape_channel, post by post                                *)

InitScrape ==
    /\ spc = "fetching" /\ feed \in Feeds /\ postIdx = 0
    /\ allConfigs = {} /\ cutoffHit = FALSE
    /\ sResult = [nodes |-> <<>>, valid |-> TRUE]
    /\ TextIdle /\ CatIdle /\ MainIdle

\* requests.get and raise_for_status fail: an except clause returns.
FetchFails ==
    /\ spc = "fetching" /\ feed.fetch # "ok"
    /\ sResult' = [nodes |-> <<>>, valid |-> FetchFailure(feed).valid]
    /\ spc' = "returned"
    /\ UNCHANGED <<feed, postIdx, allConfigs, cutoffHit, textVars, catVars, mainVars>>

\* The page is fetched and holds no post: return [], True.
FetchEmpty ==
    /\ spc = "fetching" /\ feed.fetch = "ok" /\ feed.posts = <<>>
    /\ sResult' = [nodes |-> <<>>, valid |-> TRUE]
    /\ spc' = "returned"
    /\ UNCHANGED <<feed, postIdx, allConfigs, cutoffHit, textVars, catVars, mainVars>>

\* The page is fetched and holds posts: the for loop starts.
FetchOk ==
    /\ spc = "fetching" /\ feed.fetch = "ok" /\ feed.posts # <<>>
    /\ spc' = "scanning"
    /\ UNCHANGED <<feed, postIdx, allConfigs, cutoffHit, sResult, textVars, catVars, mainVars>>

\* One pass of the for loop.
ScanPost ==
    /\ spc = "scanning" /\ ~cutoffHit /\ postIdx < Len(feed.posts)
    /\ \E st \in {ScanStep([configs |-> allConfigs, cut |-> FALSE, raised |-> FALSE],
                           feed.posts[postIdx + 1])} :
          /\ allConfigs' = st.configs
          /\ cutoffHit' = st.cut
          /\ spc' = IF st.raised THEN "raised" ELSE "scanning"
    /\ postIdx' = postIdx + 1
    /\ UNCHANGED <<feed, sResult, textVars, catVars, mainVars>>

\* The loop is over: return list(all_configs), True.
ScanReturn ==
    /\ spc = "scanning" /\ (cutoffHit \/ postIdx = Len(feed.posts))
    /\ \E q \in ListsOf(allConfigs) : sResult' = [nodes |-> q, valid |-> TRUE]
    /\ spc' = "returned"
    /\ UNCHANGED <<feed, postIdx, allConfigs, cutoffHit, textVars, catVars, mainVars>>

NextScrape == FetchFails \/ FetchEmpty \/ FetchOk \/ ScanPost \/ ScanReturn

SpecScrape == InitScrape /\ [][NextScrape]_vars

---------------------------------------------------------------------------
(* main.py: one run of main                                                *)

\* The most subscription links in the source file.
MaxLinks == 2

\* The most channels in the tracked channel file.
MaxChannels == 2

\* name = f"link_{i:03d}" of read_source_links, for the links of the model.
LinkName(i) == "link_00" \o ToString(i)

ChannelId(i) == "channel" \o ToString(i)

\* What a subscription URL may serve: nodes in plain text, the same kind of
\* text in base64, and a text with no node in it.
SubBodies ==
    {"vless://aaa'>\nss://k@1.2.3.4:8080 ",
     "dm1lc3M6Ly9iYmIKdmxlc3M6Ly9hYWE=",
     "nothing to see"}

\* The ways fetch_sub ends: the status 200 branch, and the four that return
\* (name, "").
FetchSubOutcomes == {"status_200", "status_other", "timeout", "client_error", "exception"}

\* fetch_sub(session, name, url), for the outcome of the request and the
\* body the URL serves.
fetch_sub(name, outcome, body) ==
    [name |-> name, content |-> IF outcome = "status_200" THEN body ELSE ""]

\* What a channel page may be: not found, another HTTP error, a timeout, a
\* page with no post, a page with posts, one of them too old, a page whose
\* posts hold no node, and a page with a post whose time tag is naive.
ChannelFeeds ==
    {Feed("http_error", NOT_FOUND, <<>>),
     Feed("http_error", 500, <<>>),
     Feed("timeout", 0, <<>>),
     Feed("ok", 200, <<>>),
     Feed("ok", 200, <<Post(TRUE, "aware", 1, <<Seg("text", "vless://aaa trojan://c", "")>>),
                      Post(TRUE, "aware", 9, <<Seg("text", "vmess://old", "")>>)>>),
     Feed("ok", 200, <<Post(TRUE, "aware", 0, <<Seg("text", "hello", "")>>)>>),
     Feed("ok", 200, <<Post(TRUE, "aware", 0, <<Seg("text", "tuic://t", "")>>),
                      Post(TRUE, "naive", 0, <<Seg("text", "tuic://u", "")>>)>>)}

\* scrape_channel on each page of ChannelFeeds.
ScrapeResults == [f \in ChannelFeeds |-> scrape_channel(f)]

\* parse_nodes(decode_content(content)) on each body of SubBodies.
SourceNodes == [content \in SubBodies |-> Apply(parse_nodes, decode_content(content))]

\* d[k] = v on a dict.
DictSet(d, k, v) == [x \in DOMAIN d \cup {k} |-> IF x = k THEN v ELSE d[x]]

\* The files save_source_files and save_mixed_files write for a list of
\* nodes: categorize_nodes, then _save_categorized_nodes.
SavedFiles(nodes) == FilesOf(WithAll(categorize_nodes(nodes)))

InitMain ==
    /\ pc = "start"
    /\ \E n \in 0..MaxLinks : links = [i \in 1..n |-> LinkName(i)]
    /\ \E n \in 0..MaxChannels : channelIds = [i \in 1..n |-> ChannelId(i)]
    /\ subResults = EmptyDict /\ subIdx = 0
    /\ scrapeRes = EmptyDict /\ chIdx = 0 /\ validChannels = <<>>
    /\ allNodesSet = {} /\ sourceFiles = EmptyDict
    /\ tracked = Range(channelIds) /\ rewritten = FALSE /\ mixed = EmptyDict
    /\ TextIdle /\ CatIdle /\ ScrapeIdle

\* main up to the call of process_subscription_links, which finds no link
\* and returns.
NoLinks ==
    /\ pc = "start" /\ links = <<>>
    /\ pc' = "channels"
    /\ UNCHANGED <<links, subResults, subIdx, channelIds, scrapeRes, chIdx,
                   validChannels, allNodesSet, sourceFiles, tracked, rewritten,
                   mixed, textVars, catVars, scrapeVars>>

\* process_subscription_links creates the fetch_sub tasks and awaits them.
StartFetch ==
    /\ pc = "start" /\ links # <<>>
    /\ pc' = "fetching"
    /\ UNCHANGED <<links, subResults, subIdx, channelIds, scrapeRes, chIdx,
                   validChannels, allNodesSet, sourceFiles, tracked, rewritten,
                   mixed, textVars, catVars, scrapeVars>>

\* One fetch_sub task completes and adds the nodes of its content to
\* all_nodes_set itself, while the other tasks are in flight.
FetchSubMerging(i) ==
    /\ pc = "fetching" /\ i \in DOMAIN links /\ i \notin DOMAIN subResults
    /\ \E outcome \in FetchSubOutcomes, body \in SubBodies :
       \E r \in {fetch_sub(links[i], outcome, body)} :
          /\ subResults' = DictSet(subResults, i, r)
          /\ allNodesSet' = allNodesSet \cup
                 (IF r.content = "" THEN {} ELSE Range(SourceNodes[r.content]))
    /\ UNCHANGED <<pc, links, subIdx, channelIds, scrapeRes, chIdx,
                   validChannels, sourceFiles, tracked, rewritten,
                   mixed, textVars, catVars, scrapeVars>>

\* One fetch_sub task completes; the tasks complete in any order.
FetchSub(i) ==
    /\ pc = "fetching" /\ i \in DOMAIN links /\ i \notin DOMAIN subResults
    /\ \E outcome \in FetchSubOutcomes, body \in SubBodies :
          subResults' = DictSet(subResults, i, fetch_sub(links[i], outcome, body))
    /\ UNCHANGED <<pc, links, subIdx, channelIds, scrapeRes, chIdx,
                   validChannels, allNodesSet, sourceFiles, tracked, rewritten,
                   mixed, textVars, catVars, scrapeVars>>

\* asyncio.gather returns the results of fetch_all_subs, in the order of links.
GatherSubs ==
    /\ pc = "fetching" /\ DOMAIN subResults = DOMAIN links
    /\ pc' = "sub_loop" /\ subIdx' = 0
    /\ UNCHANGED <<links, subResults, channelIds, scrapeRes, chIdx,
                   validChannels, allNodesSet, sourceFiles, tracked, rewritten,
                   mixed, textVars, catVars, scrapeVars>>

\* One pass of the for loop of process_subscription_links.
ProcessSub ==
    /\ pc = "sub_loop" /\ subIdx < Len(links)
    /\ subIdx' = subIdx + 1
    /\ \E r \in {subResults[subIdx + 1]} :
       \E source_nodes \in {IF r.content = "" THEN <<>>
                            ELSE SourceNodes[r.content]} :
          IF source_nodes = <<>>
          THEN UNCHANGED <<allNodesSet, sourceFiles>>
          ELSE /\ sourceFiles' = DictSet(sourceFiles, <<"link", r.name>>,
                                         SavedFiles(source_nodes))
               /\ allNodesSet' = allNodesSet \cup Range(source_nodes)
    /\ UNCHANGED <<pc, links, subResults, channelIds, scrapeRes, chIdx,
                   validChannels, tracked, rewritten, mixed, textVars,
                   catVars, scrapeVars>>

\* The for loop is over: process_subscription_links returns.
SubsDone ==
    /\ pc = "sub_loop" /\ subIdx = Len(links)
    /\ pc' = "channels" /\ subResults' = EmptyDict /\ subIdx' = 0
    /\ UNCHANGED <<links, channelIds, scrapeRes, chIdx, validChannels,
                   allNodesSet, sourceFiles, tracked, rewritten, mixed,
                   textVars, catVars, scrapeVars>>

\* process_telegram_channels finds no channel and returns.
NoChannels ==
    /\ pc = "channels" /\ channelIds = <<>>
    /\ pc' = "final"
    /\ UNCHANGED <<links, subResults, subIdx, channelIds, scrapeRes, chIdx,
                   validChannels, allNodesSet, sourceFiles, tracked, rewritten,
                   mixed, textVars, catVars, scrapeVars>>

\* process_telegram_channels creates the scrape tasks and awaits them.
StartScrape ==
    /\ pc = "channels" /\ channelIds # <<>>
    /\ pc' = "scraping"
    /\ UNCHANGED <<links, subResults, subIdx, channelIds, scrapeRes, chIdx,
                   validChannels, allNodesSet, sourceFiles, tracked, rewritten,
                   mixed, textVars, catVars, scrapeVars>>

\* One scrape task completes, with a result or with an exception; the tasks
\* complete in any order.  The feed the task met is kept with its result.
ScrapeTask(i) ==
    /\ pc = "scraping" /\ i \in DOMAIN channelIds /\ i \notin DOMAIN scrapeRes
    /\ \E f \in ChannelFeeds :
       \E r \in {ScrapeResults[f]} :
       \E q \in ListsOf(r.nodes) :
          scrapeRes' = DictSet(scrapeRes, i,
                               [raised |-> r.raised, nodes |-> q,
                                valid |-> r.valid, feed |-> f])
    /\ UNCHANGED <<pc, links, subResults, subIdx, channelIds, chIdx,
                   validChannels, allNodesSet, sourceFiles, tracked, rewritten,
                   mixed, textVars, catVars, scrapeVars>>

\* asyncio.gather (no return_exceptions) raises the exception of a task:
\* nothing catches it in process_telegram_channels or in main.
GatherRaises ==
    /\ pc = "scraping" /\ \E i \in DOMAIN scrapeRes : scrapeRes[i].raised
    /\ pc' = "aborted"
    /\ UNCHANGED <<links, subResults, subIdx, channelIds, scrapeRes, chIdx,
                   validChannels, allNodesSet, sourceFiles, tracked, rewritten,
                   mixed, textVars, catVars, scrapeVars>>

\* asyncio.gather returns the results, in the order of channel_ids.
GatherScrapes ==
    /\ pc = "scraping" /\ DOMAIN scrapeRes = DOMAIN channelIds
    /\ \A i \in DOMAIN scrapeRes : ~scrapeRes[i].raised
    /\ pc' = "channel_loop" /\ chIdx' = 0 /\ validChannels' = <<>>
    /\ UNCHANGED <<links, subResults, subIdx, channelIds, scrapeRes,
                   allNodesSet, sourceFiles, tracked, rewritten, mixed,
                   textVars, catVars, scrapeVars>>

\* valid_channels after one pass of the loop, with a channel that gave no
\* node left out.
AppendValidWithNodes(valid_channels, is_valid, source_nodes, channel_id) ==
    IF is_valid /\ source_nodes # <<>>
    THEN Append(valid_channels, channel_id) ELSE valid_channels

\* if is_valid: valid_channels.append(channel_id)
AppendValid(valid_channels, is_valid, source_nodes, channel_id) ==
    IF is_valid THEN Append(valid_channels, channel_id) ELSE valid_channels

\* One pass of the for loop of process_telegram_channels.
ProcessChannel ==
    /\ pc = "channel_loop" /\ chIdx < Len(channelIds)
    /\ chIdx' = chIdx + 1
    /\ \E r \in {scrapeRes[chIdx + 1]}, channel_id \in {channelIds[chIdx + 1]} :
          /\ validChannels' = AppendValid(validChannels, r.valid, r.nodes, channel_id)
          /\ IF r.nodes = <<>>
             THEN UNCHANGED <<allNodesSet, sourceFiles>>
             ELSE /\ sourceFiles' = DictSet(sourceFiles, <<"telegram", channel_id>>,
                                            SavedFiles(r.nodes))
                  /\ allNodesSet' = allNodesSet \cup Range(r.nodes)
    /\ UNCHANGED <<pc, links, subResults, subIdx, channelIds, scrapeRes,
                   tracked, rewritten, mixed, textVars, catVars, scrapeVars>>

\* update_telegram_source_file(valid_channels): the file is rewritten with
\* sorted(list(set(valid_channels))); process_telegram_channels returns.
UpdateSourceFile ==
    /\ pc = "channel_loop" /\ chIdx = Len(channelIds)
    /\ tracked' = Range(validChannels) /\ rewritten' = TRUE
    /\ pc' = "final"
    /\ UNCHANGED <<links, subResults, subIdx, channelIds, scrapeRes, chIdx,
                   validChannels, allNodesSet, sourceFiles, mixed, textVars,
                   catVars, scrapeVars>>

\* update_telegram_source_file(valid_channels) when opening the file raises
\* IOError: the error is logged and the file is left as it was.
UpdateSourceFileFails ==
    /\ pc = "channel_loop" /\ chIdx = Len(channelIds)
    /\ pc' = "final"
    /\ UNCHANGED <<links, subResults, subIdx, channelIds, scrapeRes, chIdx,
                   validChannels, allNodesSet, sourceFiles, tracked, rewritten,
                   mixed, textVars, catVars, scrapeVars>>

\* The end of main: the mixed files are saved when there are nodes.
Finish ==
    /\ pc = "final"
    /\ mixed' = IF allNodesSet # {} THEN SavedFiles(SortSet(allNodesSet)) ELSE mixed
    /\ pc' = "done"
    /\ UNCHANGED <<links, subResults, subIdx, channelIds, scrapeRes, chIdx,
                   validChannels, allNodesSet, sourceFiles, tracked, rewritten,
                   textVars, catVars, scrapeVars>>

Init == InitMain

Next ==
    \/ NoLinks \/ StartFetch \/ (\E i \in 1..MaxLinks : FetchSub(i))
    \/ GatherSubs \/ ProcessSub \/ SubsDone
    \/ NoChannels \/ StartScrape \/ (\E i \in 1..MaxChannels : ScrapeTask(i))
    \/ GatherRaises \/ GatherScrapes \/ ProcessChannel \/ UpdateSourceFile
    \/ UpdateSourceFileFails \/ Finish

Spec == Init /\ [][Next]_vars

---------------------------------------------------------------------------
(* Properties of scrape_channel (SpecScrape)                               *)

\* C1: when scrape_channel returns, it reports isValid = false if and only
\* if the fetch failed with the status "not found" (404); every other failed
\* fetch (another HTTP status, a timeout, a connection error) returns no
\* node with isValid = true, and a successful fetch returns isValid = true.
C1_InvalidIffNotFound ==
    spc = "returned" =>
        /\ (~sResult.valid) <=> (feed.fetch = "http_error" /\ feed.status = NOT_FOUND)
        /\ feed.fetch # "ok" => sResult.nodes = <<>>

\* A fetch that failed with 404 has been reported invalid.
C1_Witness ==
    /\ spc = "returned" /\ feed.fetch = "http_error" /\ feed.status = NOT_FOUND
    /\ ~sResult.valid

\* The post has a timestamp older than now - TELEGRAM_POST_MAX_AGE_DAYS.
OlderThanCutoff(post) ==
    post.time.kind = "aware" /\ post.time.age > TELEGRAM_POST_MAX_AGE_DAYS

\* The index of the first post older than the cut-off, or Len(posts) + 1.
FirstOld(posts) ==
    Min({k \in DOMAIN posts : OlderThanCutoff(posts[k])} \cup {Len(posts) + 1})

\* The nodes in the text of each post of the model.
NodesInPost ==
    [post \in PostPool |->
        Range(Apply(find_and_split_configs,
                    extract_potential_configs_from_message(post.segs)))]

\* The nodes a post gives when it is scanned: none when it has no time tag
\* the code can read.
NodesOfPost(post) ==
    IF post.time.kind = "aware" THEN NodesInPost[post] ELSE {}

\* C2: the walk over the posts never goes past the first post older than
\* the cut-off, and the returned nodes are those of the posts before it:
\* that post and the later ones give nothing, recent or not.
C2_PrefixScan ==
    (spc \in {"scanning", "returned"} /\ feed.fetch = "ok") =>
        /\ postIdx <= FirstOld(feed.posts)
        /\ spc = "returned" =>
              Range(sResult.nodes) =
                  UNION {NodesOfPost(feed.posts[k]) : k \in 1..(FirstOld(feed.posts) - 1)}

\* A scrape has returned nodes, and left out the node of a recent post that
\* comes after an old one.
C2_Witness ==
    /\ spc = "returned" /\ cutoffHit /\ sResult.nodes # <<>>
    /\ \E k \in DOMAIN feed.posts :
          /\ k > FirstOld(feed.posts)
          /\ ~OlderThanCutoff(feed.posts[k])
          /\ NodesOfPost(feed.posts[k]) # {}
          /\ NodesOfPost(feed.posts[k]) \cap Range(sResult.nodes) = {}

---------------------------------------------------------------------------
(* Properties of categorize_nodes and _save_categorized_nodes (SpecCat)    *)

\* The tag the node is to have: the lower-cased text before its first
\* '://', with hysteria2 replaced by hy2 and nothing else replaced.
SchemeTag(node) ==
    LET scheme == Lower(SubSeq(node, 1, Find(node, "://") - 1))
    IN IF scheme = "hysteria2" THEN "hy2" ELSE scheme

\* C5: every node that has a scheme is under exactly one tag, the
\* lower-cased scheme with only hysteria2 renamed (to hy2), so that http
\* nodes and https nodes are under the two tags http and https.
C5_TagIsScheme ==
    cpc = "categorized" =>
        \A i \in DOMAIN nodeList :
            Find(nodeList[i], "://") > 0 =>
                \A tag \in DOMAIN categorized :
                    (\E k \in DOMAIN categorized[tag] : categorized[tag][k] = nodeList[i])
                        <=> tag = SchemeTag(nodeList[i])

\* C8: for a non-empty list of nodes, the entry "all" of the map that is
\* saved is sorted(unique(N)): every node of N once, in sorted order.
C8_AllIsSortedUnique ==
    (cpc = "saved" /\ nodeList # <<>>) =>
        /\ "all" \in DOMAIN categorized
        /\ categorized["all"] = SortSet(Range(nodeList))

\* C9: a string that holds no '://' is under no tag of the map
\* categorize_nodes returns, and the other nodes are categorized.
C9_DropsSchemeless ==
    cpc = "categorized" =>
        /\ \A tag \in DOMAIN categorized : \A k \in DOMAIN categorized[tag] :
              Find(categorized[tag][k], "://") > 0
        /\ \A i \in DOMAIN nodeList :
              Find(nodeList[i], "://") > 0 =>
                  \E tag \in DOMAIN categorized :
                      \E k \in DOMAIN categorized[tag] : categorized[tag][k] = nodeList[i]

---------------------------------------------------------------------------
(* Properties of parse_nodes and find_and_split_configs (SpecText)         *)

\* Two URIs of recognized schemes.
BackToBackUris == {"vless://aaa", "vmess://bbb"}

\* C6: two different URIs written back to back, with nothing between them,
\* are returned by parse_nodes as two nodes.
C6_SplitsBackToBack ==
    tpc = "parsed" =>
        \A a, b \in BackToBackUris :
            (a # b /\ text = a \o b) => nodes1 = SortSet({a, b})

\* C7: parse_nodes run on its own output, joined by line feeds, returns that
\* output: no node is lost, added or changed by the second pass.
C7_Idempotent ==
    tpc = "reparsed" => nodes2 = nodes1

\* The second pass has run on an output that holds a synthetic http://ip:port
\* node and a node with an upper-case scheme.
C7_Witness ==
    /\ tpc = "reparsed"
    /\ \E i, j \in DOMAIN nodes1 :
          /\ nodes1[i] = "http://1.2.3.4:80"
          /\ nodes1[j] = "VLESS://Ab"
    /\ ~Contains(text, "http://")

\* C10: a text that is one https://t.me/proxy?... link gives the mtproto
\* node of the link when server, port and secret are all there, and no node
\* when one of them is missing.
C10_ProxyLinkGivesOnlyMtproto ==
    (tpc = "split" /\ StartsAt(text, 1, TgProxyPrefix)
                   /\ TgProxyMatchEnd(text, 1) = Len(text)) =>
        /\ \A k \in DOMAIN split : StartsAt(split[k], 1, "mtproto://")
        /\ (\E name \in {"server", "port", "secret"} :
                QueryParam(text, name) = "") => split = <<>>

---------------------------------------------------------------------------
(* Properties of main (Spec)                                               *)

\* The fetch of the channel ended in the status "not found".
NotFound(r) == r.feed.fetch = "http_error" /\ r.feed.status = NOT_FOUND

\* C3: once process_telegram_channels has rewritten the tracked channel
\* file, the file lists the channels read at the start whose scrape reported
\* isValid = true, and the only channels missing are those reported not
\* found: a timeout, another error, an empty page or a page with no node
\* removes no channel.
C3_TrackedAreValid ==
    rewritten =>
        /\ tracked = {channelIds[i] : i \in {k \in DOMAIN channelIds : scrapeRes[k].valid}}
        /\ \A i \in DOMAIN channelIds :
              channelIds[i] \notin tracked <=> NotFound(scrapeRes[i])

\* The file has been rewritten after one channel timed out and another was
\* not found: the first is listed, the second is not.
C3_Witness ==
    /\ rewritten
    /\ \E i, j \in DOMAIN channelIds :
          /\ scrapeRes[i].feed.fetch = "timeout" /\ channelIds[i] \in tracked
          /\ NotFound(scrapeRes[j]) /\ channelIds[j] \notin tracked

\* C4: the run always completes: whatever the sources give, an error while
\* scraping one channel included, main is never left by an exception.
C4_RunNeverAborts ==
    pc # "aborted"

---------------------------------------------------------------------------
(* Further properties of parse_nodes (SpecText)                            *)

\* The ip:port occurrences of the text, and the scheme URIs matched in it,
\* as spans <<first, last>>.
IpPortSpans(t) == Range(FindSpans(IpPortMatchEnd, t, 1))

UriSpans(t) == Range(FindSpans(ProtocolMatchEnd, t, 1))

\* The occurrence lies inside one of the matched URIs.
InsideUri(t, span) ==
    \E u \in UriSpans(t) : u[1] <= span[1] /\ span[2] <= u[2]

\* C11: every ip:port occurrence that is part of no matched URI gives the
\* node http://ip:port, whatever other endpoints the URIs of the text hold;
\* an ip:port whose occurrences all lie inside matched URIs gives no
\* synthetic node.
C11_BareIpPortWrapped ==
    tpc = "parsed" =>
        \A span \in IpPortSpans(text) :
            LET proxy == SubSeq(text, span[1], span[2])
                bare == \E o \in IpPortSpans(text) :
                            /\ SubSeq(text, o[1], o[2]) = proxy
                            /\ ~InsideUri(text, o)
                matched == \E u \in UriSpans(text) :
                               SubSeq(text, u[1], u[2]) = "http://" \o proxy
            IN /\ bare => "http://" \o proxy \in Range(nodes1)
               /\ (~bare /\ ~matched) => "http://" \o proxy \notin Range(nodes1)

---------------------------------------------------------------------------
(* Properties of decode_content (SpecDecode)                               *)

\* The trimmed non-blank lines of the text form, joined, a round-trip-valid
\* base64 encoding of a UTF-8 string.
IsBase64OfUtf8(t) ==
    LET lines == CleanLines(t)
        blob == Join(lines, "")
    IN /\ lines # <<>> /\ \A k \in DOMAIN lines : ~Contains(lines[k], " ")
       /\ is_base64(blob)
       /\ Utf8Decode(B64Decode(blob)[2])[1]

\* C12: decode_content returns the decoded string when the cleaned lines
\* are the base64 of a UTF-8 string, and the cleaned text (the trimmed
\* non-blank lines joined by line feeds) in every other case: never the raw
\* input.
C12_DecodedOrCleaned ==
    tpc = "decoded" =>
        decodedContent =
            IF IsBase64OfUtf8(text)
            THEN Utf8Decode(B64Decode(Join(CleanLines(text), ""))[2])[2]
            ELSE Join(CleanLines(text), "\n")

---------------------------------------------------------------------------
(* The node invariant (Spec)                                               *)

\* The string starts with a scheme of the protocol list (in any case) and
\* ://, and holds no white space, <, >, double quote or single quote.
IsNode(n) ==
    /\ \E k \in {Find(n, "://")} : k > 1 /\ Lower(SubSeq(n, 1, k - 1)) \in Protocols
    /\ CharsOf(n) \cap (SpaceChars \cup {"<", ">", "\"", "'"}) = {}

\* C13: every string parse_nodes returns for a subscription, every string
\* scrape_channel returns for a channel, and every string of the all-nodes
\* set at any point of a run is a node: a scheme of the list, ://, and no
\* white space or HTML delimiter.
C13_NodeInvariant ==
    /\ \A n \in Range(nodes1) \cup Range(nodes2) \cup Range(split) : IsNode(n)
    /\ \A n \in allConfigs \cup Range(sResult.nodes) : IsNode(n)
    /\ \A i \in DOMAIN scrapeRes : \A n \in Range(scrapeRes[i].nodes) : IsNode(n)
    /\ \A n \in allNodesSet : IsNode(n)

\* The all-nodes set holds the node of a subscription whose content has a
\* quote and an angle bracket right after the node.
C13_Witness ==
    /\ pc = "sub_loop" /\ "vless://aaa" \in allNodesSet
    /\ \E i \in DOMAIN subResults : {"'", ">"} \subseteq CharsOf(subResults[i].content)

---------------------------------------------------------------------------
(* Failures of single posts in the scan (SpecScrape)                       *)

\* The post is one the for loop cannot handle: it has no parent div of
\* class tgme_widget_message, or its timestamp cannot be compared with the
\* cut-off.
FailsInScan(post) == ~post.parent \/ post.time.kind = "naive"

\* The index of the first post that ends the scan by its age, or
\* Len(posts) + 1.
FirstOldHandled(posts) ==
    Min({k \in DOMAIN posts : OlderThanCutoff(posts[k]) /\ ~FailsInScan(posts[k])}
            \cup {Len(posts) + 1})

\* C14: a post the loop cannot handle is skipped and the scan goes on: no
\* exception leaves scrape_channel, and the call returns isValid = TRUE
\* with the nodes of the other posts before the cut-off.
C14_PostFailuresIsolated ==
    (feed.fetch = "ok" /\ feed.posts # <<>>) =>
        /\ spc # "raised"
        /\ spc = "returned" =>
              /\ sResult.valid
              /\ Range(sResult.nodes) =
                    UNION {NodesOfPost(feed.posts[k]) :
                              k \in {j \in 1..(FirstOldHandled(feed.posts) - 1) :
                                        ~FailsInScan(feed.posts[j])}}

---------------------------------------------------------------------------
(* Scheme tokens inside a URI or a word (SpecText)                         *)

\* C15: find_and_split_configs cuts no URI at a scheme token inside it and
\* takes no node out of the middle of a word: each of its nodes, the
\* mtproto nodes made of proxy links apart, is a node parse_nodes gives for
\* the text, and each URI of the text that parse_nodes gives is among its
\* nodes, whole.
C15_NoSplitAtInnerScheme ==
    tpc = "split" =>
        \A whole \in {Range(Apply(parse_nodes, text))} :
            /\ \A n \in Range(split) :
                   ~StartsAt(n, 1, "mtproto://") => n \in whole
            /\ \A n \in whole : Contains(text, n) => n \in Range(split)

---------------------------------------------------------------------------
(* Nodes inside base64 tokens of a post (SpecScrape)                       *)

\* The tokens of a text, delimited by white space, that are longer than 20
\* characters and pass the round-trip test of is_base64.
Base64Tokens(t) ==
    {tok \in {SubSeq(t, i, j) : i \in 1..Len(t), j \in 1..Len(t)} :
        /\ Len(tok) > 20
        /\ CharsOf(tok) \cap SpaceChars = {}
        /\ \E i \in 1..Len(t) :
              /\ StartsAt(t, i, tok)
              /\ (i = 1 \/ Ch(t, i - 1) \in SpaceChars)
              /\ (i + Len(tok) - 1 = Len(t) \/ Ch(t, i + Len(tok)) \in SpaceChars)
        /\ is_base64(tok)}

\* The nodes in the decoded base64 tokens of each post of the model.
NodesInTokens ==
    [post \in PostPool |->
        UNION {Range(Apply(parse_nodes, Utf8Decode(B64Decode(tok)[2])[2])) :
                  tok \in Base64Tokens(GetText(post.segs))}]

\* C16: the result of a scan holds every node that lies in a base64 token of
\* a post scanned before the cut-off.
C16_Base64TokenNodesIncluded ==
    (spc = "returned" /\ feed.fetch = "ok") =>
        \A k \in 1..(FirstOld(feed.posts) - 1) :
            feed.posts[k].time.kind = "aware" =>
                NodesInTokens[feed.posts[k]] \subseteq Range(sResult.nodes)

---------------------------------------------------------------------------
(* The merge of the sources and the order of completion (Spec)             *)

\* The nodes saved for the subscription links: the lines of the "all" file
\* of each link that has files.
LinkNodes ==
    UNION {Range(SplitOn(sourceFiles[src]["all"], "\n")) :
              src \in {k \in DOMAIN sourceFiles : k[1] = "link"}}

\* The nodes of the results of the first n links, in the order of links.
SubNodesUpTo(n) ==
    UNION {IF subResults[i].content = "" THEN {}
           ELSE Range(SourceNodes[subResults[i].content]) : i \in 1..n}

\* The nodes of the results of the first n channels, in the order of
\* channel_ids.
ScrapeNodesUpTo(n) == UNION {Range(scrapeRes[i].nodes) : i \in 1..n}

\* C17: the all-nodes set is a function of the results of the sources
\* alone, whatever the order the tasks completed in.  It is left as it was
\* while the tasks of a stage are in flight (empty during the fetches, the
\* nodes of the links during the scrapes), it is the union of the results
\* taken so far in the loop that follows the stage, and at the end the
\* merged file lists that union, sorted.
C17_MergeIndependentOfOrder ==
    /\ pc \in {"start", "fetching"} => allNodesSet = {}
    /\ pc = "sub_loop" => allNodesSet = SubNodesUpTo(subIdx)
    /\ pc \in {"channels", "scraping", "aborted"} => allNodesSet = LinkNodes
    /\ pc = "channel_loop" => allNodesSet = LinkNodes \cup ScrapeNodesUpTo(chIdx)
    /\ pc \in {"final", "done"} =>
          allNodesSet = LinkNodes \cup ScrapeNodesUpTo(Len(channelIds))
    /\ (pc = "done" /\ allNodesSet # {}) =>
          mixed["all"] =
              Join(SortSet(LinkNodes \cup ScrapeNodesUpTo(Len(channelIds))), "\n")

\* The scrapes are in flight after two links gave different nodes: the
\* second channel has completed before the first, with nodes the set does
\* not hold, and the set is still the nodes of the links.
C17_Witness ==
    /\ pc = "scraping" /\ Len(channelIds) = 2
    /\ DOMAIN scrapeRes = {2}
    /\ ~(Range(scrapeRes[2].nodes) \subseteq allNodesSet)
    /\ \E a, b \in DOMAIN sourceFiles :
          /\ a[1] = "link" /\ b[1] = "link"
          /\ sourceFiles[a]["all"] # sourceFiles[b]["all"]

====
